---- MODULE Spec2Model ----
(***************************************************************************)
(* A model of PatchedSync (src/src/patched-sync.js): the canonical object, *)
(* the history ledger, the listener tables, and the asynchronous           *)
(* fetch()/change()/patch() calls, each split at its `await` into the      *)
(* synchronous part run by the call, the settling of the transport's       *)
(* promise and the continuation run afterwards.                            *)
(*                                                                         *)
(* JSON values are tagged records [jk |-> kind, jv |-> payload].  Objects    *)
(* live on a heap of root objects addressed by reference, so that "the     *)
(* same object" and "an equal object" are different things.                *)
(***************************************************************************)
EXTENDS Integers, Sequences, FiniteSets, TLC

\* ------------------------------------------------------------------------
\* Bounds
\* ------------------------------------------------------------------------
MaxCalls == 2     \* engine calls (fetch/change/patch/get) made in one run
MaxSubs == 1      \* on() subscriptions made in one run
MaxListeners == 2 \* on() subscriptions made in one run of the listener protocol
MaxReads == 1     \* history() calls made in one run

\* ------------------------------------------------------------------------
\* JSON values
\* ------------------------------------------------------------------------
Undefined == [jk |-> "undefined", jv |-> "undefined"]
Null == [jk |-> "null", jv |-> "null"]
Str(s) == [jk |-> "string", jv |-> s]
Num(n) == [jk |-> "number", jv |-> n]
Map(f) == [jk |-> "object", jv |-> f]
Arr(s) == [jk |-> "array", jv |-> s]
EmptyMap == [z \in {} |-> Undefined]

\* PatchedSync.DELETE
DELETE == Str("$$__&&__DELETE_$_&_$")

\* Array.isArray(x)
IsArray(x) == x.jk = "array"

\* typeof x === "object"   (true of null as well)
TypeofObject(x) == x.jk \in {"object", "array", "null"}

\* the truthiness of x in `if (x)` and `x && ...`
Truthy(x) ==
  CASE x.jk \in {"undefined", "null"} -> FALSE
    [] x.jk = "string" -> x.jv # ""
    [] x.jk = "number" -> x.jv # 0
    [] OTHER -> TRUE

\* The decimal tokens used for array indices in property names and in
\* JSON Pointer paths.
IdxToks == <<"0", "1", "2", "3", "4", "5", "6", "7">>
IdxTok(i) == IdxToks[i + 1]
IsIdxTok(t) == \E i \in 1..Len(IdxToks) : IdxToks[i] = t
TokIdx(t) == (CHOOSE i \in 1..Len(IdxToks) : IdxToks[i] = t) - 1

\* The property names of the modelled objects, in the order Object.keys()
\* lists them (the objects of the model are built in this order).
KeyOrder == <<"a", "b", "c", "d", "m", "op", "index", "value", "operations">>

RECURSIVE FilterKeys(_, _)
FilterKeys(keys, dom) ==
  IF keys = <<>> THEN <<>>
  ELSE IF Head(keys) \in dom THEN <<Head(keys)>> \o FilterKeys(Tail(keys), dom)
  ELSE FilterKeys(Tail(keys), dom)

\* Object.keys(x): the integer-like names in ascending order come first
Keys(x) ==
  CASE x.jk = "object" -> FilterKeys(IdxToks \o KeyOrder, DOMAIN x.jv)
    [] x.jk = "array" -> [i \in 1..Len(x.jv) |-> IdxTok(i - 1)]
    [] OTHER -> <<>>

\* x[key] for an object or an array; a primitive has no own property under
\* the names of the model
Prop(x, key) ==
  CASE x.jk = "object" -> IF key \in DOMAIN x.jv THEN x.jv[key] ELSE Undefined
    [] x.jk = "array" ->
         IF IsIdxTok(key) /\ TokIdx(key) < Len(x.jv) THEN x.jv[TokIdx(key) + 1]
         ELSE Undefined
    [] OTHER -> Undefined

\* x[key] = value on an object
SetProp(x, key, value) ==
  Map([q \in DOMAIN x.jv \cup {key} |-> IF q = key THEN value ELSE x.jv[q]])

\* delete x[key] on an object
DelProp(x, key) == Map([q \in DOMAIN x.jv \ {key} |-> x.jv[q]])

\* the outcome of a computation that may throw: the value it has produced,
\* or left behind in the object it was mutating, and whether it threw
Ok(x) == [val |-> x, threw |-> FALSE]
Threw(x) == [val |-> x, threw |-> TRUE]

\* ------------------------------------------------------------------------
\* deepChange (the merge of a change request into the canonical object)
\* ------------------------------------------------------------------------

\* the integer Array.prototype.splice makes of its start argument
ToInteger(x) ==
  CASE x.jk = "number" -> x.jv
    [] x.jk \in {"undefined", "null"} -> 0

SpliceStart(len, idx) ==
  IF idx < 0 THEN (IF len + idx < 0 THEN 0 ELSE len + idx)
  ELSE IF idx > len THEN len ELSE idx

\* s.splice(idx, 0, e)
SpliceInsert(s, idx, e) ==
  LET i == SpliceStart(Len(s), idx)
  IN  SubSeq(s, 1, i) \o <<e>> \o SubSeq(s, i + 1, Len(s))

\* s.splice(idx, 1)
SpliceRemove(s, idx) ==
  LET i == SpliceStart(Len(s), idx)
  IN  IF i < Len(s) THEN SubSeq(s, 1, i) \o SubSeq(s, i + 2, Len(s)) ELSE s

\* applyOperation with the bug of pushing the value whatever the operation
applyOperation_pushed(s, operation) == Append(s, Prop(operation, "value"))

\* one pass of the `switch (operation.op)` over the array s
applyOperation(s, operation) ==
  LET op == Prop(operation, "op")
  IN  CASE op = Str("push") -> Append(s, Prop(operation, "value"))
        [] op = Str("splice") ->
             SpliceInsert(s, ToInteger(Prop(operation, "index")), Prop(operation, "value"))
        [] op = Str("unshift") -> <<Prop(operation, "value")>> \o s
        [] op = Str("remove") -> SpliceRemove(s, ToInteger(Prop(operation, "index")))
        [] OTHER -> s

\* the loop over changes.operations; reading `.op` of null or undefined
\* throws and leaves the array as the earlier operations made it
RECURSIVE applyOperations(_, _)
applyOperations(s, operations) ==
  IF operations = <<>> THEN Ok(Arr(s))
  ELSE IF Head(operations).jk \in {"null", "undefined"} THEN Threw(Arr(s))
  ELSE applyOperations(applyOperation(s, Head(operations)), Tail(operations))

\* deepChange(subject, changes): the value the subject has afterwards and
\* whether a TypeError was thrown on the way.  The code runs in strict mode
\* (an ES module), where assigning a property on a primitive throws.
RECURSIVE deepChange(_, _)
RECURSIVE changeKeys(_, _, _)
changeKeys(subject, changes, keys) ==
  IF keys = <<>> THEN Ok(subject)
  ELSE
    LET key == Head(keys)
        value == Prop(changes, key)
    IN  IF subject.jk # "object" THEN Threw(subject)
        ELSE IF Truthy(Prop(subject, key)) /\ TypeofObject(value) THEN
          LET r == deepChange(Prop(subject, key), value)
          IN  IF r.threw THEN Threw(SetProp(subject, key, r.val))
              ELSE changeKeys(SetProp(subject, key, r.val), changes, Tail(keys))
        ELSE IF value = DELETE THEN
          \* case PatchedSync.DELETE has no break: falls through to default
          LET deleted == IF Prop(subject, key) # Undefined
                         THEN DelProp(subject, key) ELSE subject
          IN  changeKeys(SetProp(deleted, key, value), changes, Tail(keys))
        ELSE changeKeys(SetProp(subject, key, value), changes, Tail(keys))

\* deepChange with the bug of putting the changes in place of the subject
deepChange_replaced(subject, changes) == Ok(changes)

deepChange(subject, changes) ==
  IF IsArray(subject) THEN
    IF IsArray(changes) THEN Ok(changes)
    ELSE IF changes.jk \in {"null", "undefined"} THEN Threw(subject)
    ELSE IF Truthy(Prop(changes, "operations")) THEN
      IF IsArray(Prop(changes, "operations"))
      THEN applyOperations(subject.jv, Prop(changes, "operations").jv)
      ELSE Ok(subject)
    ELSE Ok(subject)
  ELSE IF TypeofObject(changes) THEN
    IF changes.jk = "null" THEN Threw(subject)
    ELSE changeKeys(subject, changes, Keys(changes))
  ELSE Ok(changes)

\* ------------------------------------------------------------------------
\* jiff: JSON Patch (RFC 6902) diff and patch.  A patch document is a
\* sequence of operations [op, path, value]; a path is the sequence of the
\* reference tokens of its JSON Pointer.
\* ------------------------------------------------------------------------
Op(op, path, value) == [op |-> op, path |-> path, value |-> value]

\* jiff.clone(x): a structural copy; the copy is an equal value
clone(x) == x

\* element i (0-based) of an array, undefined past its end
At(s, i) == IF i < Len(s) THEN s[i + 1] ELSE Undefined

\* lcs: the lengths of the common prefix and of the common suffix
RECURSIVE findPrefix(_, _, _)
findPrefix(a, b, i) ==
  IF i < Len(a) /\ i < Len(b) /\ a[i + 1] = b[i + 1] THEN findPrefix(a, b, i + 1) ELSE i

RECURSIVE findSuffix(_, _, _, _)
findSuffix(a, b, prefix, n) ==
  IF prefix + n < Len(a) /\ prefix + n < Len(b) /\ a[Len(a) - n] = b[Len(b) - n]
  THEN findSuffix(a, b, prefix, n + 1) ELSE n

\* lcs.compare: the cost of cell (i, j) of the matrix over the part of the
\* arrays between prefix and suffix; rows index b, columns index a
RECURSIVE lcsValue(_, _, _, _, _, _, _)
lcsValue(a, b, start, rows, cols, i, j) ==
  IF i = rows /\ j = cols THEN 0
  ELSE IF i = rows THEN cols - j
  ELSE IF j = cols THEN rows - i
  ELSE IF At(a, j + start) = At(b, i + start)
       THEN lcsValue(a, b, start, rows, cols, i + 1, j + 1)
  ELSE IF lcsValue(a, b, start, rows, cols, i, j + 1) < lcsValue(a, b, start, rows, cols, i + 1, j)
       THEN lcsValue(a, b, start, rows, cols, i, j + 1) + 1
  ELSE lcsValue(a, b, start, rows, cols, i + 1, j) + 1

\* the type of cell (i, j): "skip", "right" (remove from a) or "down" (add from b)
lcsType(a, b, start, rows, cols, i, j) ==
  IF i = rows /\ j = cols THEN "skip"
  ELSE IF i = rows THEN "right"
  ELSE IF j = cols THEN "down"
  ELSE IF At(a, j + start) = At(b, i + start) THEN "skip"
  ELSE IF lcsValue(a, b, start, rows, cols, i, j + 1) < lcsValue(a, b, start, rows, cols, i + 1, j)
       THEN "right"
  ELSE "down"

\* lcsToJsonPatch over lcs.reduce: the walk through the matrix from (i, j),
\* appending to the operations made so far; offset is the shift of the
\* indices of a caused by the operations already emitted.  Matching elements
\* have equal hashes and produce no operation.
RECURSIVE lcsToJsonPatch(_, _, _, _, _, _, _, _, _, _)
lcsToJsonPatch(a, b, path, start, rows, cols, i, j, offset, out) ==
  IF i > rows THEN out
  ELSE
    LET type == lcsType(a, b, start, rows, cols, i, j)
        p == Append(path, IdxTok(j + start + offset))
    IN  CASE type = "skip" ->
               lcsToJsonPatch(a, b, path, start, rows, cols, i + 1, j + 1, offset, out)
          [] type = "right" ->
               LET tested == Append(out, Op("test", p, At(a, j + start)))
                   coalesce == out # <<>> /\ out[Len(out)].op = "add"
                                          /\ out[Len(out)].path = p
                   next == IF coalesce
                           THEN [tested EXCEPT ![Len(out)].op = "replace"]
                           ELSE Append(tested, Op("remove", p, Undefined))
               IN  lcsToJsonPatch(a, b, path, start, rows, cols, i, j + 1, offset - 1, next)
          [] type = "down" ->
               lcsToJsonPatch(a, b, path, start, rows, cols, i + 1, j, offset + 1,
                              Append(out, Op("add", p, At(b, i + start))))

appendArrayChanges(a1, a2, path) ==
  LET prefix == findPrefix(a1, a2, 0)
      suffix == IF prefix < Len(a1) /\ prefix < Len(a2)
                THEN findSuffix(a1, a2, prefix, 0) ELSE 0
      remove == suffix + prefix - 1
  IN  lcsToJsonPatch(a1, a2, path, prefix, Len(a2) - remove, Len(a1) - remove,
                     0, 0, 0, <<>>)

appendValueChanges(a, b, path) ==
  IF a # b THEN <<Op("test", path, a), Op("replace", path, b)>> ELSE <<>>

\* appendChanges / appendObjectChanges: both key loops run from the last key
\* to the first
RECURSIVE appendChanges(_, _, _)
RECURSIVE appendObjectAdds(_, _, _, _)
appendObjectAdds(o1, o2, path, keys) ==
  IF keys = <<>> THEN <<>>
  ELSE
    LET key == keys[Len(keys)]
        rest == appendObjectAdds(o1, o2, path, SubSeq(keys, 1, Len(keys) - 1))
    IN  IF Prop(o1, key) # Undefined
        THEN appendChanges(Prop(o1, key), Prop(o2, key), Append(path, key)) \o rest
        ELSE <<Op("add", Append(path, key), Prop(o2, key))>> \o rest

RECURSIVE appendObjectRemoves(_, _, _, _)
appendObjectRemoves(o1, o2, path, keys) ==
  IF keys = <<>> THEN <<>>
  ELSE
    LET key == keys[Len(keys)]
        rest == appendObjectRemoves(o1, o2, path, SubSeq(keys, 1, Len(keys) - 1))
    IN  IF Prop(o2, key) = Undefined
        THEN <<Op("test", Append(path, key), Prop(o1, key)),
               Op("remove", Append(path, key), Undefined)>> \o rest
        ELSE rest

appendChanges(a, b, path) ==
  IF IsArray(a) /\ IsArray(b) THEN appendArrayChanges(a.jv, b.jv, path)
  ELSE IF a.jk = "object" /\ b.jk = "object"
       THEN appendObjectAdds(a, b, path, Keys(b)) \o appendObjectRemoves(a, b, path, Keys(a))
  ELSE appendValueChanges(a, b, path)

\* jiff.diff(a, b)
jiffDiff(a, b) == appendChanges(a, b, <<>>)

\* the application of one operation at the last token of its path, inside
\* the object or array x that holds the target
applyLeaf(x, key, change) ==
  IF x.jk = "object" THEN
    CASE change.op = "add" -> Ok(SetProp(x, key, change.value))
      [] change.op = "replace" ->
           IF key \in DOMAIN x.jv THEN Ok(SetProp(x, key, change.value)) ELSE Threw(x)
      [] change.op = "remove" ->
           IF key \in DOMAIN x.jv THEN Ok(DelProp(x, key)) ELSE Threw(x)
      [] change.op = "test" ->
           IF Prop(x, key) = change.value THEN Ok(x) ELSE Threw(x)
  ELSE IF x.jk = "array" THEN
    IF key = "-" THEN
      IF change.op = "add" THEN Ok(Arr(Append(x.jv, change.value))) ELSE Threw(x)
    ELSE IF ~IsIdxTok(key) THEN Threw(x)
    ELSE
      LET i == TokIdx(key)
      IN  CASE change.op = "add" ->
                 IF i <= Len(x.jv)
                 THEN Ok(Arr(SubSeq(x.jv, 1, i) \o <<change.value>> \o SubSeq(x.jv, i + 1, Len(x.jv))))
                 ELSE Threw(x)
            [] change.op = "replace" ->
                 IF i < Len(x.jv) THEN Ok(Arr([x.jv EXCEPT ![i + 1] = change.value])) ELSE Threw(x)
            [] change.op = "remove" ->
                 IF i < Len(x.jv)
                 THEN Ok(Arr(SubSeq(x.jv, 1, i) \o SubSeq(x.jv, i + 2, Len(x.jv))))
                 ELSE Threw(x)
            [] change.op = "test" ->
                 IF Prop(x, key) = change.value THEN Ok(x) ELSE Threw(x)
  ELSE Threw(x)

\* the walk down the path to the holder of the target
RECURSIVE applyAt(_, _, _)
applyAt(x, path, change) ==
  IF Len(path) = 1 THEN applyLeaf(x, Head(path), change)
  ELSE IF Prop(x, Head(path)) = Undefined THEN Threw(x)
  ELSE
    LET r == applyAt(Prop(x, Head(path)), Tail(path), change)
    IN  IF r.threw THEN Threw(x)
        ELSE IF x.jk = "object" THEN Ok(SetProp(x, Head(path), r.val))
        ELSE Ok(Arr([x.jv EXCEPT ![TokIdx(Head(path)) + 1] = r.val]))

\* jiff.patch(changes, x): the operations applied in order to a copy of x;
\* a failing test or a missing target throws and yields nothing
RECURSIVE jiffPatch(_, _)
jiffPatch(changes, x) ==
  IF changes = <<>> THEN Ok(x)
  ELSE
    LET r == applyAt(x, Head(changes).path, Head(changes))
    IN  IF r.threw THEN Threw(x) ELSE jiffPatch(Tail(changes), r.val)

\* ------------------------------------------------------------------------
\* Inputs
\* ------------------------------------------------------------------------

\* the objects an instance is constructed with
Nested == Map([a |-> Str("a"),
               b |-> Map([a |-> Str("a"),
                          b |-> Map([a |-> Str("a"), b |-> Str("b"), c |-> Str("c")])]),
               c |-> Str("c")])
InitialObjects == {Nested}

\* the arguments of change()
ChangeRequests ==
  { Map([a |-> Str("not a")]),
    Map([b |-> Map([b |-> Map([a |-> Str("not a")]), c |-> Str("c")])]) }

\* the arguments of patch()
PatchTargets == { Map([a |-> Str("not a"), b |-> Prop(Nested, "b")]) }

\* what transport.get() resolves with
RemoteObjects ==
  { Map([a |-> Str("remote a"), b |-> Map([b |-> Map([b |-> Str("b")])])]) }

\* what transport.patch() resolves with
ServerPatches ==
  { <<>>,
    <<Op("add", <<"b", "b", "d">>, Str("d")),
      Op("test", <<"b", "b", "b">>, Str("b")),
      Op("replace", <<"b", "b", "b">>, Str("not b"))>> }

\* what a transport call rejects with
TransportErrors == {"NetworkError", "Http500"}

\* the first argument of on()
Commands == {"patch", "get:error", "*"}

EventNames == {"get:start", "get:end", "get:error", "patch:start", "patch:end", "patch:error"}

\* the inputs of the runs that exercise the merge: the objects an instance
\* is constructed with, holding scalars, nested objects and an array, and
\* the arguments of change()
Letters == Arr(<<Str("a"), Str("b"), Str("c")>>)
MergeSubjects ==
  { Map([a |-> Str("a"),
         b |-> Map([a |-> Str("a"), b |-> Map([a |-> Str("a"), b |-> Str("b")])]),
         c |-> Letters]),
    Map([a |-> Num(1), b |-> Num(2)]) }
Operations(ops) == Map([operations |-> Arr(ops)])
MergeRequests ==
  { Map([a |-> Str("not a")]),
    Map([b |-> Map([b |-> Map([a |-> Str("x")])])]),
    Map([a |-> DELETE]),
    Map([b |-> Map([a |-> DELETE])]),
    Map([c |-> Operations(<<Map([op |-> Str("push"), value |-> Str("d")])>>)]),
    Map([c |-> Operations(<<Map([op |-> Str("unshift"), value |-> Str("z")]),
                            Map([op |-> Str("splice"), index |-> Num(1), value |-> Str("y")]),
                            Map([op |-> Str("remove"), index |-> Num(0)])>>)]),
    Map([c |-> Operations(<<Map([op |-> Str("remove"), index |-> Num(1)]),
                            Map([op |-> Str("splice"), index |-> Num(2), value |-> Str("y")])>>)]),
    Map([c |-> Arr(<<Str("x")>>)]),
    Map([a |-> Map([a |-> Str("x")])]),
    Map([b |-> Null]),
    Map([c |-> Map([a |-> Str("x")])]) }

\* the inputs of the runs that exercise the constructor: config is absent,
\* or an object that has or has not each of the parameters, with a
\* transport that is absent, the name of a built-in transport, another
\* name, a transport object, or a number
ConfigParams == {"get_url", "patch_url", "socket_url", "get_message", "patch_message"}
TransportSpecs ==
  { Undefined, Str("xmlhttprequest"), Str("fetch"), Str("websocket"),
    Str("carrier-pigeon"), Map(EmptyMap), Num(1) }
Configs ==
  {Undefined} \cup
  { Map([k \in P \cup (IF t = Undefined THEN {} ELSE {"transport"}) |->
           IF k = "transport" THEN t ELSE Str("/fake")]) :
      P \in SUBSET ConfigParams, t \in TransportSpecs }
ConstructorObjects == {Undefined, Nested}

\* the arguments of history(): none, or a reverse index
ReverseIndexes == {Undefined} \cup {Num(n) : n \in 0..3}

\* what a callback does when it is invoked
Behaviours == {"returns", "mutates", "throws"}

\* the inputs of the runs that exercise the listeners: the first argument of
\* on(), the argument of change(), and the arguments of a notify() made by
\* the caller, whose event name is one of the table or not
ListenerCommands == {"patch", "*"}
ListenerRequests == { Map([a |-> Str("not a")]) }
NotifyNames == {"patch:end", "changed"}
NotifyData == Map([a |-> Str("a")])

\* ------------------------------------------------------------------------
\* State
\* ------------------------------------------------------------------------
VARIABLES
  heap,        \* the root objects in memory, by reference
  _object,     \* this._object: a reference into heap
  _history,    \* this._history: the patch documents pushed so far
  _listeners,  \* this._listeners: event name -> the callbacks subscribed, in order
  calls,       \* the engine calls made so far, in the order they were made
  fired,       \* the notify() invocations made by the engine calls, in order
  nsubs,       \* the number of on() calls made
  transport,   \* this.transport: the kind of transport the constructor set
  reads        \* the history() calls made: argument, ledger length, value

vars == <<heap, _object, _history, _listeners, calls, fired, nsubs, transport, reads>>

\* a reference no live object has
NewRef(h) == CHOOSE r \in 1..(Cardinality(DOMAIN h) + 1) : r \notin DOMAIN h

\* h with a new object of value x at reference r
Alloc(h, r, x) == [q \in DOMAIN h \cup {r} |-> IF q = r THEN x ELSE h[q]]

\* the references the instance and its callers still hold
Live(obj, cs) == ({obj} \cup {cs[c].ret : c \in 1..Len(cs)}) \ {0}

Collect(h, obj, cs) == [q \in DOMAIN h \cap Live(obj, cs) |-> h[q]]

InFlight(c) == calls[c].pc \in {"awaiting", "settled"}

NoneInFlight == \A c \in 1..Len(calls) : ~InFlight(c)

\* the call record of a call that has reached its await
NewCall(kind, arg, old, patchdoc) ==
  [ kind |-> kind, pc |-> "awaiting", arg |-> arg, old_object |-> old,
    patch |-> patchdoc, tstate |-> "pending", tcalls |-> 1,
    server_patch |-> <<>>, remote |-> Undefined, error |-> "",
    ret |-> 0, thrown |-> "", solo |-> NoneInFlight ]

\* the calls in flight are no longer alone once another call starts
Overlapped(cs) ==
  [c \in 1..Len(cs) |-> IF cs[c].pc \in {"awaiting", "settled"}
                        THEN [cs[c] EXCEPT !.solo = FALSE] ELSE cs[c]]

\* the call record of a call that a throwing listener of its start event
\* ended before it did anything else
Aborted(kind, arg) ==
  [ NewCall(kind, arg, Undefined, <<>>) EXCEPT
      !.pc = "rejected", !.tstate = "none", !.tcalls = 0, !.thrown = "ListenerError" ]

\* the state after new PatchedSync(config, o)
Constructed(o) ==
  /\ heap = Alloc(<<>>, 1, clone(o))
  /\ _object = 1
  /\ _history = <<>>
  /\ _listeners = [e \in EventNames |-> <<>>]
  /\ calls = <<>>
  /\ fired = <<>>
  /\ nsubs = 0
  /\ transport = "object"
  /\ reads = <<>>

Init == \E o \in InitialObjects : Constructed(o)

\* the checks the constructor makes of config: the error it throws, or the
\* transport it sets (none when config.transport is falsy)
Fails(message) == [threw |-> TRUE, error |-> message, transport |-> "undefined"]
Sets(kind) == [threw |-> FALSE, error |-> "", transport |-> kind]
constructor(config) ==
  IF ~Truthy(config)
  THEN Fails("A configuration object is required as the first parameter of the constructor.")
  ELSE
    LET t == Prop(config, "transport")
    IN  IF ~Truthy(t) THEN Sets("undefined")
        ELSE IF t.jk = "string" THEN
          CASE t.jv \in {"xmlhttprequest", "fetch"} ->
                 IF ~Truthy(Prop(config, "get_url"))
                 THEN Fails("Get URL must be defined (config.get_url)")
                 ELSE IF ~Truthy(Prop(config, "patch_url"))
                 THEN Fails("Patch URL must be defined (config.patch_url)")
                 ELSE Sets(t.jv)
            [] t.jv = "websocket" ->
                 IF ~Truthy(Prop(config, "socket_url"))
                 THEN Fails("Socket URL must be defined (config.socket_url)")
                 ELSE IF ~Truthy(Prop(config, "get_message"))
                 THEN Fails("Get message name is required (config.get_message)")
                 ELSE IF ~Truthy(Prop(config, "patch_message"))
                 THEN Fails("Patch message name is required (config.patch_message)")
                 ELSE Sets("websocket")
            [] OTHER -> Fails("No transport was defined (config.transport)")
        ELSE IF TypeofObject(t) THEN Sets("object")
        ELSE Fails("Transport must be either an object or a string.")

\* the state before any instance is constructed
Unconstructed ==
  /\ heap = <<>>
  /\ _object = 0
  /\ _history = <<>>
  /\ _listeners = [e \in EventNames |-> <<>>]
  /\ calls = <<>>
  /\ fired = <<>>
  /\ nsubs = 0
  /\ transport = "undefined"
  /\ reads = <<>>

\* new PatchedSync(config, initial_object): the instance, or the error
\* thrown, which leaves no instance
construct(config, initial_object) ==
  /\ calls = <<>>
  /\ _object = 0
  /\ LET r == constructor(config)
         o == IF Truthy(initial_object) THEN initial_object ELSE Map(EmptyMap)
         call == [ NewCall("constructor", config, Undefined, <<>>) EXCEPT
                     !.pc = IF r.threw THEN "rejected" ELSE "resolved",
                     !.thrown = r.error,
                     !.tstate = "none", !.tcalls = 0, !.solo = FALSE ]
     IN  /\ calls' = <<call>>
         /\ IF r.threw THEN UNCHANGED <<heap, _object, transport>>
            ELSE /\ heap' = Alloc(<<>>, 1, clone(o))
                 /\ _object' = 1
                 /\ transport' = r.transport
  /\ UNCHANGED <<_history, _listeners, fired, nsubs, reads>>

\* invoked with the bug of running the loop from the last listener to the first
invoked_reversed(listeners) ==
  [i \in 1..Len(listeners) |-> listeners[Len(listeners) + 1 - i]]

\* the listeners notify() invokes: all of them, or those up to and including
\* the first one that throws, whose exception leaves the loop
invoked(listeners) ==
  IF \E i \in 1..Len(listeners) : listeners[i].does = "throws"
  THEN SubSeq(listeners, 1,
              CHOOSE i \in 1..Len(listeners) :
                /\ listeners[i].does = "throws"
                /\ \A j \in 1..(i - 1) : listeners[j].does # "throws")
  ELSE listeners

\* the object passed to the listeners once the listeners fns have run on it:
\* a listener that mutates writes a property of the payload it was given
RECURSIVE payloadAfter(_, _)
payloadAfter(data, fns) ==
  IF fns = <<>> THEN data
  ELSE
    LET before == payloadAfter(data, SubSeq(fns, 1, Len(fns) - 1))
    IN  IF fns[Len(fns)].does = "mutates" /\ before.jk = "object"
        THEN SetProp(before, "m", Str("mutated"))
        ELSE before

\* the body of notify(event_name, data): one clone is made of data, and the
\* listeners of the event are invoked with it one after the other, in the
\* order of the list; recv[i] is the payload as listener i found it
notified(event_name, data) ==
  LET listeners == IF event_name \in DOMAIN _listeners
                   THEN _listeners[event_name] ELSE <<>>
      fns == invoked(listeners)
      copy == clone(data)
  IN  [ data |-> copy, fns |-> fns,
        recv |-> [i \in 1..Len(fns) |-> payloadAfter(copy, SubSeq(fns, 1, i - 1))],
        threw |-> \E i \in 1..Len(listeners) : listeners[i].does = "throws" ]

\* a listener of the event throws, and notify() with it
notifyThrows(event_name) == notified(event_name, Undefined).threw

\* the entry of the log for a notify() made by call c
Entry(event_name, data, c) ==
  LET n == notified(event_name, data)
  IN  [ev |-> event_name, call |-> c, data |-> n.data, fns |-> n.fns,
       recv |-> n.recv, threw |-> n.threw]

\* notify with the bug of firing every event twice
notify_twice(event_name, data, c) ==
  fired' = fired \o <<Entry(event_name, data, c), Entry(event_name, data, c)>>

\* notify(event_name, data) made by call c
notify(event_name, data, c) ==
  fired' = Append(fired, Entry(event_name, data, c))

\* ------------------------------------------------------------------------
\* What the three asynchronous calls share
\* ------------------------------------------------------------------------

\* pushHistory with the bug of not recording the patch
pushHistory_skipped(patchdoc) == _history

\* pushHistory with the bug of putting the patch at the head of the ledger
pushHistory_prepended(patchdoc) == <<patchdoc>> \o _history

\* this._history.push(patch)
pushHistory(patchdoc) == Append(_history, patchdoc)

\* applyServerPatch with the bug of dropping the server's patch
applyServerPatch_dropped(c, object) == Ok(object)

\* applyServerPatch with the bug of applying the server's patch to the
\* call's own local result instead of the object as it is by then
applyServerPatch_overwrote(c, object) ==
  jiffPatch(calls[c].server_patch,
            IF calls[c].kind = "change"
            THEN deepChange(calls[c].old_object, calls[c].arg).val
            ELSE calls[c].arg)

\* applyServerPatch with the bug of merging the call's request again into
\* the object as it is by then, before the server's patch is applied
applyServerPatch_remerged(c, object) ==
  jiffPatch(calls[c].server_patch,
            IF calls[c].kind = "change"
            THEN deepChange(object, calls[c].arg).val
            ELSE calls[c].arg)

\* jiff.patch(server_patch, this._object) in the continuation of call c:
\* the server's patch is applied to the object as it is by then
applyServerPatch(c, object) == jiffPatch(calls[c].server_patch, object)

\* awaitThrows with the bug of swallowing the rejection
awaitThrows_swallowed(c) ==
  /\ calls' = [calls EXCEPT ![c].pc = "resolved"]
  /\ UNCHANGED <<heap, _object, _history, fired>>

\* awaitThrows with the bug of taking the last patch back off the history
awaitThrows_rolledBack(c) ==
  /\ calls' = [calls EXCEPT ![c].pc = "rejected", ![c].thrown = calls[c].error]
  /\ _history' = SubSeq(_history, 1, Len(_history) - 1)
  /\ UNCHANGED <<heap, _object, fired>>

\* awaitThrows with the bug of firing the end event of the call all the same
awaitThrows_notified(c) ==
  /\ calls' = [calls EXCEPT ![c].pc = "rejected", ![c].thrown = calls[c].error]
  /\ notify(IF calls[c].kind = "fetch" THEN "get:end" ELSE "patch:end",
            heap[_object], c)
  /\ UNCHANGED <<heap, _object, _history>>

\* `await` on a rejected transport promise: the rejection is rethrown out
\* of the call, whose remaining statements do not run
awaitThrows(c) ==
  /\ calls' = [calls EXCEPT ![c].pc = "rejected", ![c].thrown = calls[c].error]
  /\ UNCHANGED <<heap, _object, _history, fired>>

\* ------------------------------------------------------------------------
\* fetch()
\* ------------------------------------------------------------------------

\* fetchCall with the bug of recording an empty patch for the fetch
fetchCall_recorded ==
  /\ Len(calls) < MaxCalls
  /\ notify("get:start", Undefined, Len(calls) + 1)
  /\ calls' = Append(Overlapped(calls),
                     IF notifyThrows("get:start") THEN Aborted("fetch", Undefined)
                     ELSE NewCall("fetch", Undefined, Undefined, <<>>))
  /\ _history' = Append(_history, <<>>)
  /\ UNCHANGED <<heap, _object, _listeners, nsubs, transport, reads>>

\* fetch() up to its await: notify("get:start"), transport.get()
fetchCall ==
  /\ Len(calls) < MaxCalls
  /\ notify("get:start", Undefined, Len(calls) + 1)
  /\ calls' = Append(Overlapped(calls),
                     IF notifyThrows("get:start") THEN Aborted("fetch", Undefined)
                     ELSE NewCall("fetch", Undefined, Undefined, <<>>))
  /\ UNCHANGED <<heap, _object, _history, _listeners, nsubs, transport, reads>>

\* fetchResolved with the bug of recording the remote change in the history
fetchResolved_recorded(c) ==
  LET obj == NewRef(heap)
      h1 == Alloc(heap, obj, calls[c].remote)
      ret == NewRef(h1)
      cs == IF notifyThrows("get:end")
            THEN [calls EXCEPT ![c].pc = "rejected", ![c].thrown = "ListenerError"]
            ELSE [calls EXCEPT ![c].pc = "resolved", ![c].ret = ret]
  IN  /\ _object' = obj
      /\ notify("get:end", h1[obj], c)
      /\ calls' = cs
      /\ heap' = Collect(Alloc(h1, ret, clone(h1[obj])), obj, cs)
      /\ _history' = Append(_history, jiffDiff(heap[_object], calls[c].remote))

\* fetchResolved with the bug of merging the delivered object into this._object
fetchResolved_merged(c) ==
  LET obj == NewRef(heap)
      h1 == Alloc(heap, obj, deepChange(heap[_object], calls[c].remote).val)
      ret == NewRef(h1)
      cs == [calls EXCEPT ![c].pc = "resolved", ![c].ret = ret]
  IN  /\ _object' = obj
      /\ notify("get:end", h1[obj], c)
      /\ calls' = cs
      /\ heap' = Collect(Alloc(h1, ret, clone(h1[obj])), obj, cs)
      /\ UNCHANGED _history

\* fetchResolved with the bug of not notifying get:end
fetchResolved_silent(c) ==
  LET obj == NewRef(heap)
      h1 == Alloc(heap, obj, calls[c].remote)
      ret == NewRef(h1)
      cs == [calls EXCEPT ![c].pc = "resolved", ![c].ret = ret]
  IN  /\ _object' = obj
      /\ calls' = cs
      /\ heap' = Collect(Alloc(h1, ret, clone(h1[obj])), obj, cs)
      /\ UNCHANGED <<_history, fired>>

\* fetch() after its await has produced a value: the object the transport
\* delivered becomes this._object, notify("get:end"), a clone is returned
fetchResolved(c) ==
  LET obj == NewRef(heap)
      h1 == Alloc(heap, obj, calls[c].remote)
      ret == NewRef(h1)
      cs == IF notifyThrows("get:end")
            THEN [calls EXCEPT ![c].pc = "rejected", ![c].thrown = "ListenerError"]
            ELSE [calls EXCEPT ![c].pc = "resolved", ![c].ret = ret]
  IN  /\ _object' = obj
      /\ notify("get:end", h1[obj], c)
      /\ calls' = cs
      /\ heap' = Collect(Alloc(h1, ret, clone(h1[obj])), obj, cs)
      /\ UNCHANGED _history

fetchResume(c) ==
  /\ calls[c].kind = "fetch"
  /\ calls[c].pc = "settled"
  /\ IF calls[c].tstate = "resolved" THEN fetchResolved(c) ELSE awaitThrows(c)
  /\ UNCHANGED <<_listeners, nsubs, transport, reads>>

\* get(): a clone of this._object
get ==
  /\ Len(calls) < MaxCalls
  /\ LET ret == NewRef(heap)
     IN  /\ heap' = Alloc(heap, ret, clone(heap[_object]))
         /\ calls' = Append(calls,
              [NewCall("get", Undefined, Undefined, <<>>) EXCEPT
                 !.pc = "resolved", !.tstate = "none", !.tcalls = 0, !.ret = ret,
                 !.solo = FALSE])
  /\ UNCHANGED <<_object, _history, _listeners, fired, nsubs, transport, reads>>

\* ------------------------------------------------------------------------
\* history()
\* ------------------------------------------------------------------------

\* a patch document as a value a call returns
Doc(patchdoc) == [jk |-> "patch", jv |-> patchdoc]

\* this._history[index], index counted from 0: undefined outside the array
historyAt(index) ==
  IF index >= 0 /\ index < Len(_history) THEN Doc(_history[index + 1])
  ELSE Undefined

\* history(reverse_index): null when the ledger is empty, the entry at 0
\* when reverse_index is falsy, else the entry at length - reverse_index + 1
history(reverse_index) ==
  IF Len(_history) = 0 THEN Null
  ELSE IF ~Truthy(reverse_index) THEN historyAt(0)
  ELSE historyAt(Len(_history) - reverse_index.jv + 1)

\* a call of history(reverse_index), which changes nothing of the instance
historyCall(reverse_index) ==
  /\ reads' = Append(reads, [ reverse_index |-> reverse_index,
                              length |-> Len(_history),
                              value |-> history(reverse_index) ])
  /\ UNCHANGED <<heap, _object, _history, _listeners, calls, fired, nsubs,
                 transport>>

\* ------------------------------------------------------------------------
\* change()
\* ------------------------------------------------------------------------

\* change(obj) up to its await: notify("patch:start"), the merge into
\* this._object (in place when it is an object), the diff against the clone
\* taken before, the push onto the history and transport.patch().  A
\* TypeError thrown by the merge rejects the call there and then, leaving
\* the object as the merge had made it so far.
changeCall(obj) ==
  /\ Len(calls) < MaxCalls
  /\ notify("patch:start", Undefined, Len(calls) + 1)
  /\ LET old_object == clone(heap[_object])
         r == deepChange(heap[_object], obj)
         inplace == heap[_object].jk = "object" \/ (IsArray(heap[_object]) /\ ~IsArray(obj))
         patchdoc == jiffDiff(old_object, r.val)
     IN  IF notifyThrows("patch:start") THEN
           /\ calls' = Append(Overlapped(calls), Aborted("change", obj))
           /\ UNCHANGED <<heap, _object, _history>>
         ELSE IF r.threw THEN
           /\ heap' = [heap EXCEPT ![_object] = r.val]
           /\ calls' = Append(Overlapped(calls),
                [NewCall("change", obj, old_object, <<>>) EXCEPT
                   !.pc = "rejected", !.tstate = "none", !.tcalls = 0,
                   !.thrown = "TypeError"])
           /\ UNCHANGED <<_object, _history>>
         ELSE
           LET cs == Append(Overlapped(calls), NewCall("change", obj, old_object, patchdoc))
               obj1 == IF inplace THEN _object ELSE NewRef(heap)
           IN  /\ _object' = obj1
               /\ heap' = Collect(Alloc(heap, obj1, r.val), obj1, cs)
               /\ _history' = pushHistory(patchdoc)
               /\ calls' = cs
  /\ UNCHANGED <<_listeners, nsubs, transport, reads>>

\* change() after its await has produced the server's patch: it is applied
\* to this._object, notify("patch:end"), a clone is returned; a patch that
\* does not apply makes jiff.patch throw
changeResolved(c) ==
  LET r == applyServerPatch(c, heap[_object])
  IN  IF r.threw THEN
        /\ calls' = [calls EXCEPT ![c].pc = "rejected", ![c].thrown = "PatchError"]
        /\ UNCHANGED <<heap, _object, _history, fired>>
      ELSE
        LET obj == NewRef(heap)
            h1 == Alloc(heap, obj, r.val)
            ret == NewRef(h1)
            cs == IF notifyThrows("patch:end")
                  THEN [calls EXCEPT ![c].pc = "rejected", ![c].thrown = "ListenerError"]
                  ELSE [calls EXCEPT ![c].pc = "resolved", ![c].ret = ret]
        IN  /\ _object' = obj
            /\ notify("patch:end", h1[obj], c)
            /\ calls' = cs
            /\ heap' = Collect(Alloc(h1, ret, clone(h1[obj])), obj, cs)
            /\ UNCHANGED _history

changeResume(c) ==
  /\ calls[c].kind = "change"
  /\ calls[c].pc = "settled"
  /\ IF calls[c].tstate = "resolved" THEN changeResolved(c) ELSE awaitThrows(c)
  /\ UNCHANGED <<_listeners, nsubs, transport, reads>>

\* ------------------------------------------------------------------------
\* patch()
\* ------------------------------------------------------------------------

\* patchCall with the bug of merging obj into this._object as change() does
patchCall_merged(obj) ==
  /\ Len(calls) < MaxCalls
  /\ notify("patch:start", Undefined, Len(calls) + 1)
  /\ LET r == deepChange(heap[_object], obj)
         patchdoc == jiffDiff(heap[_object], r.val)
     IN  IF notifyThrows("patch:start") THEN
           /\ calls' = Append(Overlapped(calls), Aborted("patch", obj))
           /\ UNCHANGED <<heap, _object, _history>>
         ELSE IF r.threw THEN
           /\ _history' = pushHistory(patchdoc)
           /\ calls' = Append(Overlapped(calls),
                [NewCall("patch", obj, Undefined, patchdoc) EXCEPT
                   !.pc = "rejected", !.tstate = "none", !.tcalls = 0,
                   !.thrown = "PatchError"])
           /\ UNCHANGED <<heap, _object>>
         ELSE
           LET cs == Append(Overlapped(calls), NewCall("patch", obj, Undefined, patchdoc))
               obj1 == NewRef(heap)
           IN  /\ _history' = pushHistory(patchdoc)
               /\ _object' = obj1
               /\ heap' = Collect(Alloc(heap, obj1, clone(r.val)), obj1, cs)
               /\ calls' = cs
  /\ UNCHANGED <<_listeners, nsubs, transport, reads>>

\* patch(obj) up to its await: notify("patch:start"), the diff of
\* this._object against obj, the push onto the history, the patched clone
\* that becomes this._object, and transport.patch()
patchCall(obj) ==
  /\ Len(calls) < MaxCalls
  /\ notify("patch:start", Undefined, Len(calls) + 1)
  /\ LET patchdoc == jiffDiff(heap[_object], obj)
         r == jiffPatch(patchdoc, heap[_object])
     IN  IF notifyThrows("patch:start") THEN
           /\ calls' = Append(Overlapped(calls), Aborted("patch", obj))
           /\ UNCHANGED <<heap, _object, _history>>
         ELSE IF r.threw THEN
           /\ _history' = pushHistory(patchdoc)
           /\ calls' = Append(Overlapped(calls),
                [NewCall("patch", obj, Undefined, patchdoc) EXCEPT
                   !.pc = "rejected", !.tstate = "none", !.tcalls = 0,
                   !.thrown = "PatchError"])
           /\ UNCHANGED <<heap, _object>>
         ELSE
           LET cs == Append(Overlapped(calls), NewCall("patch", obj, Undefined, patchdoc))
               obj1 == NewRef(heap)
           IN  /\ _history' = pushHistory(patchdoc)
               /\ _object' = obj1
               /\ heap' = Collect(Alloc(heap, obj1, clone(r.val)), obj1, cs)
               /\ calls' = cs
  /\ UNCHANGED <<_listeners, nsubs, transport, reads>>

\* patch() after its await has produced the server's patch: it is applied
\* to this._object, notify("patch:end"), and this._object itself is returned
patchResolved(c) ==
  LET r == applyServerPatch(c, heap[_object])
  IN  IF r.threw THEN
        /\ calls' = [calls EXCEPT ![c].pc = "rejected", ![c].thrown = "PatchError"]
        /\ UNCHANGED <<heap, _object, _history, fired>>
      ELSE
        LET obj == NewRef(heap)
            h1 == Alloc(heap, obj, r.val)
            cs == IF notifyThrows("patch:end")
                  THEN [calls EXCEPT ![c].pc = "rejected", ![c].thrown = "ListenerError"]
                  ELSE [calls EXCEPT ![c].pc = "resolved", ![c].ret = obj]
        IN  /\ _object' = obj
            /\ notify("patch:end", h1[obj], c)
            /\ calls' = cs
            /\ heap' = Collect(h1, obj, cs)
            /\ UNCHANGED _history

patchResume(c) ==
  /\ calls[c].kind = "patch"
  /\ calls[c].pc = "settled"
  /\ IF calls[c].tstate = "resolved" THEN patchResolved(c) ELSE awaitThrows(c)
  /\ UNCHANGED <<_listeners, nsubs, transport, reads>>

\* ------------------------------------------------------------------------
\* The transport, on() and the caller
\* ------------------------------------------------------------------------

\* the promise of transport.get() / transport.patch() is fulfilled
transportResolve(c) ==
  /\ calls[c].pc = "awaiting"
  /\ \/ /\ calls[c].kind = "fetch"
        /\ \E o \in RemoteObjects :
             calls' = [calls EXCEPT ![c].pc = "settled", ![c].tstate = "resolved",
                                    ![c].remote = o]
     \/ /\ calls[c].kind \in {"change", "patch"}
        /\ \E sp \in ServerPatches :
             calls' = [calls EXCEPT ![c].pc = "settled", ![c].tstate = "resolved",
                                    ![c].server_patch = sp]
  /\ UNCHANGED <<heap, _object, _history, _listeners, fired, nsubs, transport, reads>>

\* the promise of transport.get() / transport.patch() is rejected
transportReject(c) ==
  /\ calls[c].pc = "awaiting"
  /\ \E e \in TransportErrors :
       calls' = [calls EXCEPT ![c].pc = "settled", ![c].tstate = "rejected",
                              ![c].error = e]
  /\ UNCHANGED <<heap, _object, _history, _listeners, fired, nsubs, transport, reads>>

\* command.indexOf(":") === -1
NoColon(command) == command \in {"get", "patch", "*"}

\* on with the bug of subscribing the callback of "*" to the error events too
on_wildcardAll(command, does) ==
  /\ nsubs' = nsubs + 1
  /\ LET fn == [id |-> nsubs + 1, does |-> does]
     IN  IF command \in {"*", "*:*"} THEN
           _listeners' = [e \in EventNames |-> Append(_listeners[e], fn)]
         ELSE
           LET name == IF NoColon(command) THEN command \o ":end" ELSE command
           IN  IF name \in DOMAIN _listeners
               THEN _listeners' = [_listeners EXCEPT ![name] = Append(@, fn)]
               ELSE UNCHANGED _listeners
  /\ UNCHANGED <<heap, _object, _history, calls, fired, transport, reads>>

\* on(command, fn) with a callback not subscribed before, which does one
\* thing when it is invoked: it returns, it writes a property of the payload
\* and returns, or it throws.  Pushing onto the list of an event the table
\* does not have throws.
on(command, does) ==
  /\ nsubs' = nsubs + 1
  /\ LET fn == [id |-> nsubs + 1, does |-> does]
     IN  IF command \in {"*", "*:*"} THEN
           _listeners' = [e \in EventNames |->
                            IF e \in {"get:start", "get:end", "patch:start", "patch:end"}
                            THEN Append(_listeners[e], fn) ELSE _listeners[e]]
         ELSE
           LET name == IF NoColon(command) THEN command \o ":end" ELSE command
           IN  IF name \in DOMAIN _listeners
               THEN _listeners' = [_listeners EXCEPT ![name] = Append(@, fn)]
               ELSE UNCHANGED _listeners
  /\ UNCHANGED <<heap, _object, _history, calls, fired, transport, reads>>

\* the caller writes a property of the value call c returned to it; when
\* that value is this._object itself, the calls in flight are disturbed
callerMutate(c) ==
  /\ calls[c].ret # 0
  /\ heap[calls[c].ret].jk = "object"
  /\ Prop(heap[calls[c].ret], "m") # Str("mutated")
  /\ heap' = [heap EXCEPT ![calls[c].ret] = SetProp(@, "m", Str("mutated"))]
  /\ calls' = IF calls[c].ret = _object THEN Overlapped(calls) ELSE calls
  /\ UNCHANGED <<_object, _history, _listeners, fired, nsubs, transport, reads>>

\* notify(event_name, data) called by the caller: it returns, or throws what
\* a listener threw
notifyCall(event_name) ==
  /\ Len(calls) < MaxCalls
  /\ notify(event_name, NotifyData, Len(calls) + 1)
  /\ calls' = Append(calls,
       [ NewCall("notify", NotifyData, Undefined, <<>>) EXCEPT
           !.pc = IF notifyThrows(event_name) THEN "rejected" ELSE "resolved",
           !.thrown = IF notifyThrows(event_name) THEN "ListenerError" ELSE "",
           !.tstate = "none", !.tcalls = 0, !.solo = FALSE ])
  /\ UNCHANGED <<heap, _object, _history, _listeners, nsubs, transport, reads>>

Next ==
  \/ fetchCall
  \/ get
  \/ \E obj \in ChangeRequests : changeCall(obj)
  \/ \E obj \in PatchTargets : patchCall(obj)
  \/ \E c \in 1..Len(calls) : transportResolve(c)
  \/ \E c \in 1..Len(calls) : transportReject(c)
  \/ \E c \in 1..Len(calls) : fetchResume(c)
  \/ \E c \in 1..Len(calls) : changeResume(c)
  \/ \E c \in 1..Len(calls) : patchResume(c)
  \/ \E command \in Commands : nsubs < MaxSubs /\ on(command, "returns")
  \/ \E c \in 1..Len(calls) : callerMutate(c)

Spec == Init /\ [][Next]_vars

\* The listener protocol: callbacks of every behaviour, subscribed at any
\* time around change() calls that succeed, and notify() called from
\* outside.
ListenerNext ==
  \/ \E obj \in ListenerRequests : changeCall(obj)
  \/ \E c \in 1..Len(calls) : transportResolve(c)
  \/ \E c \in 1..Len(calls) : changeResume(c)
  \/ \E command \in ListenerCommands, does \in Behaviours :
       nsubs < MaxListeners /\ on(command, does)
  \/ \E event_name \in NotifyNames : notifyCall(event_name)

ListenerSpec == Init /\ [][ListenerNext]_vars

\* The construction: new PatchedSync() called with configs of every shape.
ConstructNext ==
  \E config \in Configs, initial_object \in ConstructorObjects :
    construct(config, initial_object)

ConstructSpec == Unconstructed /\ [][ConstructNext]_vars

\* The ledger read back: history() called at any time around change() and
\* patch() calls.
HistoryNext ==
  \/ \E obj \in ChangeRequests : changeCall(obj)
  \/ \E obj \in PatchTargets : patchCall(obj)
  \/ \E c \in 1..Len(calls) : transportResolve(c)
  \/ \E c \in 1..Len(calls) : changeResume(c)
  \/ \E c \in 1..Len(calls) : patchResume(c)
  \/ \E reverse_index \in ReverseIndexes :
       Len(reads) < MaxReads /\ historyCall(reverse_index)

HistorySpec == Init /\ [][HistoryNext]_vars

\* The merge: change() called with requests of every shape on instances
\* constructed with objects of every shape.
MergeInit == \E o \in MergeSubjects : Constructed(o)

MergeNext == \E obj \in MergeRequests : changeCall(obj)

MergeSpec == MergeInit /\ [][MergeNext]_vars

\* ------------------------------------------------------------------------
\* Properties
\* ------------------------------------------------------------------------

\* the value of this._object
Canonical == heap[_object]

\* call c has computed its diff and pushed it onto the history
Diffed(c) ==
  /\ calls[c].kind \in {"change", "patch"}
  /\ calls[c].tcalls > 0 \/ calls[c].thrown = "PatchError"

\* the place in the history of the patch document of call c
HistoryIndex(c) == Cardinality({d \in 1..c : Diffed(d)})

\* the events of a call, by the kind of the call
StartEvent(c) == IF calls[c].kind = "fetch" THEN "get:start" ELSE "patch:start"
EndEvent(c) == IF calls[c].kind = "fetch" THEN "get:end" ELSE "patch:end"
ErrorEvent(c) == IF calls[c].kind = "fetch" THEN "get:error" ELSE "patch:error"

\* the places in the log where event ev was fired by call c
Fired(ev, c) == {i \in 1..Len(fired) : fired[i].ev = ev /\ fired[i].call = c}

\* the value change() or patch() of call c leaves in this._object before
\* its round-trip: the merge of the request, or the target of the patch
LocalResult(c) ==
  IF calls[c].kind = "change"
  THEN deepChange(calls[c].old_object, calls[c].arg).val
  ELSE calls[c].arg

\* C1: when the continuation of a change(R) that ran alone on state S runs
\* with a counter-patch P that applies, the call resolves, and both the
\* canonical state and the returned value are P applied to merge(S, R).
C1_RemoteAppliedAfterMerge ==
  [][\A c \in 1..Len(calls) :
       ( /\ calls[c].kind = "change"
         /\ calls[c].pc = "settled"
         /\ calls'[c].pc # "settled"
         /\ calls[c].tstate = "resolved"
         /\ calls[c].solo
         /\ ~jiffPatch(calls[c].server_patch, LocalResult(c)).threw )
       => /\ calls'[c].pc = "resolved"
          /\ heap'[_object'] = jiffPatch(calls[c].server_patch, LocalResult(c)).val
          /\ heap'[calls'[c].ret] = jiffPatch(calls[c].server_patch, LocalResult(c)).val]_vars

\* a change() that ran alone has resolved with a counter-patch that edits
\* other paths than the request did, and both edits are in the state
C1_Witness ==
  \E c \in 1..Len(calls) :
    /\ calls[c].kind = "change"
    /\ calls[c].pc = "resolved"
    /\ calls[c].solo
    /\ calls[c].server_patch # <<>>
    /\ calls[c].arg = Map([a |-> Str("not a")])
    /\ Prop(Canonical, "a") = Str("not a")
    /\ Prop(Prop(Prop(Canonical, "b"), "b"), "d") = Str("d")
    /\ Prop(Prop(Prop(Canonical, "b"), "b"), "b") = Str("not b")

\* C2: while the round-trip of a change() or patch() call is pending, the
\* history already holds the patch document of that call, at the place of
\* the call among the calls that pushed.
C2_HistoryBeforeRoundTrip ==
  \A c \in 1..Len(calls) :
    (calls[c].kind \in {"change", "patch"} /\ InFlight(c))
    => /\ HistoryIndex(c) \in 1..Len(_history)
       /\ _history[HistoryIndex(c)] = calls[c].patch

\* a change() awaits its transport and its non-empty patch is in the history
C2_Witness ==
  \E c \in 1..Len(calls) :
    /\ calls[c].kind = "change"
    /\ calls[c].pc = "awaiting"
    /\ calls[c].patch # <<>>
    /\ _history[HistoryIndex(c)] = calls[c].patch

\* C3: a call whose transport call was rejected has fired its error event
\* (get:error for fetch, patch:error for change and patch) exactly once.
C3_ErrorEventFired ==
  \A c \in 1..Len(calls) :
    (calls[c].pc = "rejected" /\ calls[c].tstate = "rejected")
    => Cardinality(Fired(ErrorEvent(c), c)) = 1

\* C4: a call whose transport call was rejected never resolves and returns
\* nothing, rejects with the very value the transport rejected with, and
\* no call invokes its transport more than once.
C4_RejectionPropagates ==
  \A c \in 1..Len(calls) :
    /\ calls[c].tcalls <= 1
    /\ calls[c].tstate # "none" => calls[c].tcalls = 1
    /\ calls[c].tstate = "rejected"
         => /\ calls[c].pc \in {"settled", "rejected"}
            /\ calls[c].ret = 0
            /\ calls[c].pc = "rejected" => calls[c].thrown = calls[c].error

\* a fetch() and a change() have been rejected with different failures
C4_Witness ==
  \E c, d \in 1..Len(calls) :
    /\ calls[c].kind = "fetch" /\ calls[c].pc = "rejected" /\ calls[c].thrown = "Http500"
    /\ calls[d].kind = "change" /\ calls[d].pc = "rejected" /\ calls[d].thrown = "NetworkError"

\* C5: when the continuation of a change() or patch() finds its transport
\* call rejected, it writes neither the canonical state nor the history:
\* the history keeps the patch the call pushed, and the state of a call that
\* ran alone is still its merge (or its target).
C5_NoRollbackOnFailure ==
  [][\A c \in 1..Len(calls) :
       ( /\ calls[c].kind \in {"change", "patch"}
         /\ calls[c].pc = "settled"
         /\ calls'[c].pc # "settled"
         /\ calls[c].tstate = "rejected" )
       => /\ heap'[_object'] = heap[_object]
          /\ _history' = _history
          /\ HistoryIndex(c) \in 1..Len(_history')
          /\ _history'[HistoryIndex(c)] = calls[c].patch
          /\ calls[c].solo => heap'[_object'] = LocalResult(c)]_vars

\* a change() that ran alone was rejected by its transport; the state holds
\* its merge and the history its patch
C5_Witness ==
  \E c \in 1..Len(calls) :
    /\ calls[c].kind = "change"
    /\ calls[c].pc = "rejected"
    /\ calls[c].tstate = "rejected"
    /\ calls[c].solo
    /\ Canonical = LocalResult(c)
    /\ Canonical # calls[c].old_object
    /\ calls[c].patch # <<>>
    /\ _history[HistoryIndex(c)] = calls[c].patch

\* C6 as stated: the length of the history is the number of change() and
\* patch() calls that have completed successfully.
C6_HistoryCountsCompleted ==
  Len(_history) =
    Cardinality({c \in 1..Len(calls) :
                   calls[c].kind \in {"change", "patch"} /\ calls[c].pc = "resolved"})

\* C6 as amended: the length of the history is the number of change() and
\* patch() calls that have computed their diff, whether they have since
\* completed, failed or are still in flight; fetch() and get() add nothing.
C6_HistoryCountsDiffed ==
  Len(_history) = Cardinality({c \in 1..Len(calls) : Diffed(c)})

\* the history holds the patches of a call that failed and of a call still
\* in flight
C6_Witness ==
  /\ Len(_history) = 2
  /\ \E c, d \in 1..Len(calls) :
       /\ calls[c].kind = "change" /\ calls[c].pc = "rejected"
       /\ calls[d].kind = "patch" /\ calls[d].pc = "awaiting"

\* C7: no step of a fetch() (its start, its continuation after a delivery
\* or after a rejection) changes the history.
C7_FetchLeavesHistory ==
  [][( \/ Len(calls') > Len(calls) /\ calls'[Len(calls')].kind = "fetch"
       \/ \E c \in 1..Len(calls) :
            calls[c].kind = "fetch" /\ calls'[c].pc \in {"resolved", "rejected"}
                                    /\ calls[c].pc = "settled" )
     => _history' = _history]_vars

\* a fetch() has resolved after a change() pushed its patch, which is still
\* all the history holds
C7_Witness ==
  \E c, d \in 1..Len(calls) :
    /\ c < d
    /\ calls[c].kind = "change" /\ Diffed(c)
    /\ calls[d].kind = "fetch" /\ calls[d].pc = "resolved"
    /\ _history = <<calls[c].patch>>

\* C8: a write by the caller to a value that get(), fetch(), change() or
\* patch() returned never changes the canonical state that a later get()
\* returns.
C8_ReturnsAreClones ==
  [][(\E c \in 1..Len(calls) : callerMutate(c)) => heap'[_object'] = heap[_object]]_vars

\* call c2 began while the change() call c1 was in flight
Overlap(c1, c2) ==
  /\ c1 < c2
  /\ calls[c1].kind = "change" /\ calls[c1].tcalls = 1
  /\ calls[c2].kind = "change" /\ calls[c2].tcalls = 1
  /\ \/ InFlight(c1)
     \/ /\ calls[c1].pc = "resolved"
        /\ \A i \in Fired("patch:end", c1), j \in Fired("patch:start", c2) : j < i

\* the call among c1 and c2 whose patch:end was fired last
LastResolved(c1, c2) ==
  IF \A i \in Fired("patch:end", c1), j \in Fired("patch:end", c2) : i < j THEN c2 ELSE c1

C10_EventOrder ==
  \A c \in 1..Len(calls) :
    calls[c].kind # "get"
    => /\ Cardinality(Fired(StartEvent(c), c)) = 1
       /\ Cardinality(Fired(EndEvent(c), c)) <= 1
       /\ \A i \in Fired(EndEvent(c), c) : \E j \in Fired(StartEvent(c), c) : j < i
       /\ calls[c].pc = "resolved" => Cardinality(Fired(EndEvent(c), c)) = 1
       /\ \A i \in 1..Len(fired) :
            fired[i].call = c => fired[i].ev \in {StartEvent(c), EndEvent(c)}

\* a fetch() and a change() ran concurrently and both resolved, the change
\* started last and resolved first
C10_Witness ==
  /\ Len(calls) = 2
  /\ calls[1].kind = "fetch" /\ calls[1].pc = "resolved"
  /\ calls[2].kind = "change" /\ calls[2].pc = "resolved"
  /\ [i \in 1..Len(fired) |-> fired[i].ev] = <<"get:start", "patch:start", "patch:end", "get:end">>

\* the events "*" stands for
WildcardEvents == {"get:start", "get:end", "patch:start", "patch:end"}

\* the callbacks subscribed to some event
Subscribers == UNION {{_listeners[e][i] : i \in 1..Len(_listeners[e])} : e \in EventNames}

\* the invocations of callback fn: the notification and the place in its loop
Invocations(fn) ==
  {<<i, j>> \in (1..Len(fired)) \X (1..4) : j <= Len(fired[i].fns) /\ fired[i].fns[j] = fn}

\* C11: a callback subscribed to the four events of "*" before a fetch() and
\* a change() that ran concurrently and both resolved has been invoked
\* exactly 4 times, once for each of get:start, get:end, patch:start and
\* patch:end, in whichever order the two round-trips resolved.
C11_WildcardSeesFour ==
  \A fn \in Subscribers :
    ( /\ \A e \in WildcardEvents : \E i \in 1..Len(_listeners[e]) : _listeners[e][i] = fn
      /\ Len(calls) = 2
      /\ {calls[1].kind, calls[2].kind} = {"fetch", "change"}
      /\ calls[1].pc = "resolved" /\ calls[2].pc = "resolved"
      /\ Len(fired) >= 2 /\ fired[1].call = 1 /\ fired[2].call = 2
      /\ \E j \in 1..Len(fired[1].fns) : fired[1].fns[j] = fn )
    => /\ Cardinality(Invocations(fn)) = 4
       /\ \A e \in WildcardEvents :
            Cardinality({x \in Invocations(fn) : fired[x[1]].ev = e}) = 1

\* a wildcard callback has seen the four events of a fetch() and a change()
\* of which the one started last resolved first
C11_Witness ==
  /\ Len(calls) = 2
  /\ calls[1].kind = "fetch" /\ calls[1].pc = "resolved"
  /\ calls[2].kind = "change" /\ calls[2].pc = "resolved"
  /\ Len(fired) = 4
  /\ \A i \in 1..4 : fired[i].fns = <<[id |-> 1, does |-> "returns"]>>
  /\ [i \in 1..4 |-> fired[i].ev] = <<"get:start", "patch:start", "patch:end", "get:end">>

\* C12: on("get", cb) and on("patch", cb) append cb to the list of get:end
\* and of patch:end respectively and to no other; on("*", cb) appends cb to
\* the lists of get:start, get:end, patch:start and patch:end, and to the
\* list of neither error event; every other list is as it was.
C12_OnSubscribes ==
  [][\A command \in {"get", "patch", "*"} :
       on(command, "returns")
       => LET fn == [id |-> nsubs + 1, does |-> "returns"]
              to == IF command = "*" THEN WildcardEvents ELSE {command \o ":end"}
          IN  \A e \in EventNames :
                _listeners'[e] = IF e \in to THEN Append(_listeners[e], fn)
                                 ELSE _listeners[e]]_vars

\* a callback subscribed with "*" is in the four lists and in neither list
\* of the error events
C12_Witness ==
  /\ nsubs = 1
  /\ \A e \in WildcardEvents : _listeners[e] = <<[id |-> 1, does |-> "returns"]>>
  /\ _listeners["get:error"] = <<>>
  /\ _listeners["patch:error"] = <<>>

\* the last entry of the log after a step that made a notification
Notified == fired'[Len(fired')]

C14_OwnClonePerSubscriber ==
  [][Len(fired') = Len(fired) + 1
     => /\ \A j \in 1..Len(Notified.recv) : Notified.recv[j] = Notified.data
        /\ ( /\ Notified.call \in 1..Len(calls)
             /\ calls[Notified.call].kind = "change" )
           => Notified.data = heap'[_object']
        /\ Notified.call = Len(calls') /\ calls'[Notified.call].kind = "notify"
           => heap'[_object'] = heap[_object]]_vars

\* C15: a notification invokes every callback subscribed to its event even
\* when one of them throws, and the call that made it is not ended by the
\* exception: it goes on to its transport call or to its resolution.
C15_ThrowingListenerContained ==
  [][Len(fired') = Len(fired) + 1
     => ( Notified.ev \in EventNames
          => /\ Notified.fns = _listeners[Notified.ev]
             /\ calls'[Notified.call].thrown # "ListenerError"
             /\ calls'[Notified.call].kind = "change"
                => calls'[Notified.call].pc \in {"awaiting", "resolved"} )]_vars

\* a step in which change() was called, and the request it was called with
Changed == Len(calls') = Len(calls) + 1 /\ calls'[Len(calls')].kind = "change"
Request == calls'[Len(calls')].arg

\* merged holds every key of subject that request does not name, with the
\* value it had, and so at every depth where request names a mapping inside
\* a mapping
RECURSIVE KeepsAbsentKeys(_, _, _)
KeepsAbsentKeys(subject, request, merged) ==
  IF subject.jk = "object" /\ request.jk = "object" THEN
    /\ merged.jk = "object"
    /\ \A k \in DOMAIN subject.jv :
         IF k \notin DOMAIN request.jv
         THEN k \in DOMAIN merged.jv /\ merged.jv[k] = subject.jv[k]
         ELSE (subject.jv[k].jk = "object" /\ request.jv[k].jk = "object")
              => /\ k \in DOMAIN merged.jv
                 /\ KeepsAbsentKeys(subject.jv[k], request.jv[k], merged.jv[k])
  ELSE TRUE

\* C16: the state a change(R) leaves holds every key of the state it found
\* that R does not name, unchanged, at every nesting depth; and the request
\* {b: {b: {a: x}}} changes the leaf b.b.a alone.
C16_MergeKeepsAbsentKeys ==
  [][Changed
     => /\ KeepsAbsentKeys(heap[_object], Request, heap'[_object'])
        /\ ( /\ Request = Map([b |-> Map([b |-> Map([a |-> Str("x")])])])
             /\ Prop(Prop(heap[_object], "b"), "b").jk = "object" )
           => heap'[_object'] =
                SetProp(heap[_object], "b",
                  SetProp(Prop(heap[_object], "b"), "b",
                    SetProp(Prop(Prop(heap[_object], "b"), "b"), "a", Str("x"))))]_vars

\* the nested request has changed the leaf b.b.a and the siblings at all
\* three levels are as the instance was constructed with them
C16_Witness ==
  /\ Len(calls) = 1
  /\ calls[1].arg = Map([b |-> Map([b |-> Map([a |-> Str("x")])])])
  /\ Prop(Prop(Prop(Canonical, "b"), "b"), "a") = Str("x")
  /\ Prop(Prop(Prop(Canonical, "b"), "b"), "b") = Str("b")
  /\ Prop(Prop(Canonical, "b"), "a") = Str("a")
  /\ Prop(Canonical, "a") = Str("a")
  /\ Prop(Canonical, "c") = Letters

\* C17: after a change() whose request gives key k the DELETE marker, the
\* state has no key k, and its other keys are as they were.
C17_DeleteRemovesKey ==
  [][Changed
     => \A k \in DOMAIN Request.jv :
          (Request.jv[k] = DELETE /\ heap[_object].jk = "object")
          => /\ k \notin DOMAIN heap'[_object'].jv
             /\ KeepsAbsentKeys(heap[_object], Request, heap'[_object'])]_vars

\* 0-based insertion before index i and deletion at index i
InsertBefore(s, i, e) == SubSeq(s, 1, i) \o <<e>> \o SubSeq(s, i + 1, Len(s))
DeleteAt(s, i) == SubSeq(s, 1, i) \o SubSeq(s, i + 2, Len(s))

\* the sequence s after one operation of the four
Operated(s, operation) ==
  LET op == operation.jv.op.jv
  IN  CASE op = "push" -> s \o <<operation.jv.value>>
        [] op = "unshift" -> <<operation.jv.value>> \o s
        [] op = "splice" -> InsertBefore(s, operation.jv.index.jv, operation.jv.value)
        [] op = "remove" -> DeleteAt(s, operation.jv.index.jv)

\* the operation names a place of the sequence s
InRange(s, operation) ==
  LET op == operation.jv.op.jv
  IN  CASE op = "splice" -> operation.jv.index.jv \in 0..Len(s)
        [] op = "remove" -> operation.jv.index.jv \in 0..(Len(s) - 1)
        [] OTHER -> TRUE

\* the sequence s after the operations, one by one in list order
RECURSIVE OperatedAll(_, _)
OperatedAll(s, operations) ==
  IF operations = <<>> THEN s
  ELSE OperatedAll(Operated(s, Head(operations)), Tail(operations))

RECURSIVE AllInRange(_, _)
AllInRange(s, operations) ==
  IF operations = <<>> THEN TRUE
  ELSE /\ InRange(s, Head(operations))
       /\ AllInRange(Operated(s, Head(operations)), Tail(operations))

\* C18: after a change() whose request gives key k a mapping with an
\* operations list, the state holding a sequence at k, the sequence at k is
\* the old one with the operations applied one by one in list order, each
\* to the sequence as the operations before it left it; the call does not
\* throw and the other keys are as they were.
C18_OperationsInOrder ==
  [][Changed
     => \A k \in DOMAIN Request.jv :
          ( /\ Request.jv[k].jk = "object"
            /\ "operations" \in DOMAIN Request.jv[k].jv
            /\ heap[_object].jk = "object"
            /\ IsArray(Prop(heap[_object], k))
            /\ AllInRange(Prop(heap[_object], k).jv, Request.jv[k].jv.operations.jv) )
          => /\ calls'[Len(calls')].thrown = ""
             /\ Prop(heap'[_object'], k) =
                  Arr(OperatedAll(Prop(heap[_object], k).jv, Request.jv[k].jv.operations.jv))
             /\ KeepsAbsentKeys(heap[_object], Request, heap'[_object'])]_vars

\* unshift z, splice(1) y and remove(0) have made [y, a, b, c] of [a, b, c]
C18_Witness ==
  /\ Len(calls) = 1
  /\ IsArray(Prop(Prop(calls[1].arg, "c"), "operations"))
  /\ Len(Prop(Prop(calls[1].arg, "c"), "operations").jv) = 3
  /\ Prop(Canonical, "c") = Arr(<<Str("y"), Str("a"), Str("b"), Str("c")>>)
  /\ calls[1].patch # <<>>

\* the request gives key k a value whose shape the value of the state at k
\* does not have: a mapping against a scalar, null against a mapping or a
\* sequence, a mapping without operations against a sequence
Mismatch(old, value) ==
  \/ old.jk \in {"string", "number"} /\ value.jk = "object"
  \/ old.jk \in {"object", "array"} /\ value.jk = "null"
  \/ old.jk = "array" /\ value.jk = "object" /\ "operations" \notin DOMAIN value.jv

\* C19: a change() whose request mismatches the state at key k does not
\* throw, and leaves at k the value the request gave.
C19_MismatchDegrades ==
  [][Changed
     => \A k \in DOMAIN Request.jv :
          (heap[_object].jk = "object" /\ Mismatch(Prop(heap[_object], k), Request.jv[k]))
          => /\ calls'[Len(calls')].thrown = ""
             /\ Prop(heap'[_object'], k) = Request.jv[k]]_vars

\* C20: a patch(T) called on state S with no call in flight sends and
\* appends to the history the patch document diff(S, T) and leaves T as the
\* canonical state, without the keys of S that T does not have; and when
\* its round-trip, undisturbed, resolves with a counter-patch P that applies
\* to T, the call resolves and the canonical state is P applied to T.
C20_PatchReplacesThenApplies ==
  [][ /\ ( /\ Len(calls') = Len(calls) + 1
           /\ calls'[Len(calls')].kind = "patch"
           /\ NoneInFlight
           /\ calls'[Len(calls')].thrown # "ListenerError" )
         => /\ calls'[Len(calls')].pc = "awaiting"
            /\ calls'[Len(calls')].patch = jiffDiff(heap[_object], calls'[Len(calls')].arg)
            /\ _history' = Append(_history, jiffDiff(heap[_object], calls'[Len(calls')].arg))
            /\ heap'[_object'] = calls'[Len(calls')].arg
      /\ \A c \in 1..Len(calls) :
           ( /\ calls[c].kind = "patch"
             /\ calls[c].pc = "settled"
             /\ calls'[c].pc # "settled"
             /\ calls[c].tstate = "resolved"
             /\ calls[c].solo
             /\ ~jiffPatch(calls[c].server_patch, calls[c].arg).threw )
           => /\ calls'[c].pc = "resolved"
              /\ heap'[_object'] = jiffPatch(calls[c].server_patch, calls[c].arg).val
    ]_vars

\* a patch() that ran alone has resolved: the key c of the initial object,
\* which the target does not have, is gone, and the counter-patch is applied
C20_Witness ==
  \E c \in 1..Len(calls) :
    /\ calls[c].kind = "patch"
    /\ calls[c].pc = "resolved"
    /\ calls[c].solo
    /\ calls[c].server_patch # <<>>
    /\ calls[c].patch # <<>>
    /\ _history[HistoryIndex(c)] = calls[c].patch
    /\ Prop(Canonical, "c") = Undefined
    /\ Prop(Canonical, "a") = Str("not a")
    /\ Prop(Prop(Prop(Canonical, "b"), "b"), "d") = Str("d")
    /\ Prop(Prop(Prop(Canonical, "b"), "b"), "b") = Str("not b")

\* C21: when the continuation of a fetch() runs on the object its
\* transport.get() delivered, the call resolves, and the canonical state,
\* the payload of the get:end it fires and the value it returns all equal
\* that object, whatever the state was before.
C21_FetchReplacesWholesale ==
  [][\A c \in 1..Len(calls) :
       ( /\ calls[c].kind = "fetch"
         /\ calls[c].pc = "settled"
         /\ calls'[c].pc # "settled"
         /\ calls[c].tstate = "resolved" )
       => /\ calls'[c].pc = "resolved"
          /\ heap'[_object'] = calls[c].remote
          /\ heap'[calls'[c].ret] = calls[c].remote
          /\ Len(fired') = Len(fired) + 1
          /\ fired'[Len(fired')].ev = "get:end"
          /\ fired'[Len(fired')].call = c
          /\ fired'[Len(fired')].data = calls[c].remote]_vars

\* a fetch() has resolved after a change() had merged its request: the
\* state is the delivered object, without the merged edit and without the
\* keys only the former state had
C21_Witness ==
  \E c, d \in 1..Len(calls) :
    /\ calls[c].kind = "change" /\ calls[c].pc = "rejected" /\ Diffed(c)
    /\ calls[c].arg = Map([a |-> Str("not a")])
    /\ calls[d].kind = "fetch" /\ calls[d].pc = "resolved"
    /\ fired[Len(fired)].ev = "get:end"
    /\ Canonical = calls[d].remote
    /\ Prop(Canonical, "a") = Str("remote a")
    /\ Prop(Canonical, "c") = Undefined

\* the parameters each built-in transport requires
Required(tag) ==
  CASE tag \in {"xmlhttprequest", "fetch"} -> {"get_url", "patch_url"}
    [] tag = "websocket" -> {"socket_url", "get_message", "patch_message"}
    [] OTHER -> {}

\* config has no transport, a transport that is a name but not one of the
\* built-in ones, or lacks a parameter the named transport requires
Invalid(config) ==
  IF config.jk # "object" THEN TRUE
  ELSE IF "transport" \notin DOMAIN config.jv THEN TRUE
  ELSE LET t == config.jv.transport
       IN  t.jk = "string"
           /\ \/ t.jv \notin {"xmlhttprequest", "fetch", "websocket"}
              \/ ~(Required(t.jv) \subseteq DOMAIN config.jv)

\* C22: a construction with no config, with a config that has no transport,
\* with a transport name that is not built in, or without a parameter the
\* named transport requires, throws and leaves no instance.
C22_InvalidConfigFails ==
  \A c \in 1..Len(calls) :
    (calls[c].kind = "constructor" /\ Invalid(calls[c].arg))
    => /\ calls[c].pc = "rejected"
       /\ calls[c].thrown # ""
       /\ _object = 0

\* C23: history(n) with a ledger of L >= 1 entries and 0 <= n < L returned
\* the entry at index L - 1 - n, so that history(0) is the most recent one,
\* and history() of an empty ledger returned null.
C23_HistoryReverseIndex ==
  \A i \in 1..Len(reads) :
    LET n == reads[i].reverse_index
        L == reads[i].length
    IN  /\ L = 0 => reads[i].value = Null
        /\ (L >= 1 /\ n.jk = "number" /\ n.jv < L)
           => reads[i].value = Doc(_history[L - n.jv])

RECURSIVE Replay(_, _)
Replay(o, docs) ==
  IF docs = <<>> THEN Ok(o)
  ELSE LET r == jiffPatch(Head(docs), o)
       IN  IF r.threw THEN r ELSE Replay(r.val, Tail(docs))

\* every counter-patch delivered so far is empty and no fetch() has put a
\* fetched object in place of the canonical one
LocalOnly ==
  \A c \in 1..Len(calls) :
    /\ calls[c].server_patch = <<>>
    /\ ~(calls[c].kind = "fetch" /\ calls[c].pc = "resolved")

\* C25: in every state of a run in which the counter-patches are all empty
\* and no fetch() has completed, the documents of the history applied in
\* order to the initial object give the canonical state.
C25_HistoryReplays ==
  LocalOnly
  => \E o \in InitialObjects : Replay(clone(o), _history) = Ok(Canonical)

\* the fetch() call d delivered its object while the change() call c, the
\* only other call of the run, was in flight
FetchedDuring(c, d) ==
  /\ Len(calls) = 2
  /\ calls[c].kind = "change" /\ calls[c].tcalls = 1
  /\ calls[d].kind = "fetch" /\ calls[d].pc = "resolved"
  /\ \E i \in Fired("patch:start", c), j \in Fired("get:end", d) : i < j
  /\ \A i \in Fired("patch:end", c), j \in Fired("get:end", d) : j < i

\* C26: when the continuation of a change() runs after a fetch() has
\* resolved while the change() was in flight, with a counter-patch that
\* applies to the fetched object, the call resolves, the canonical state is
\* the counter-patch applied to the fetched object (the local edit is in it
\* only where the fetched object or the counter-patch has it), and the
\* history still holds the patch of the change().
C26_FetchDuringChange ==
  [][\A c, d \in 1..Len(calls) :
       ( /\ FetchedDuring(c, d)
         /\ calls[c].pc = "settled" /\ calls'[c].pc # "settled"
         /\ calls[c].tstate = "resolved"
         /\ ~jiffPatch(calls[c].server_patch, calls[d].remote).threw )
       => /\ calls'[c].pc = "resolved"
          /\ heap'[_object'] = jiffPatch(calls[c].server_patch, calls[d].remote).val
          /\ heap'[calls'[c].ret] = heap'[_object']
          /\ _history' = <<calls[c].patch>>]_vars

\* change({a: "not a"}) has resolved with a counter-patch that is not empty
\* after a fetch() resolved during it: a is what the fetched object has, the
\* counter-patch is applied, and the history holds the local patch
C26_Witness ==
  \E c, d \in 1..Len(calls) :
    /\ FetchedDuring(c, d)
    /\ calls[c].pc = "resolved"
    /\ calls[c].arg = Map([a |-> Str("not a")])
    /\ calls[c].server_patch # <<>>
    /\ Prop(Canonical, "a") = Str("remote a")
    /\ Prop(Prop(Prop(Canonical, "b"), "b"), "b") = Str("not b")
    /\ _history = <<calls[c].patch>>
    /\ calls[c].patch # <<>>

\* the places in the log where event ev was fired
FiredAll(ev) == {i \in 1..Len(fired) : fired[i].ev = ev}

\* the calls that have invoked transport.patch()
Sent == {c \in 1..Len(calls) : calls[c].kind \in {"change", "patch"} /\ calls[c].tcalls = 1}

\* C27: as long as no subscriber has raised, the history has as many entries
\* as patch:start events were fired and as transport.patch() was invoked,
\* the i-th document passed to transport.patch() is the i-th entry of the
\* history, and no more patch:end events were fired than that.
C27_CountsAgree ==
  (\A i \in 1..Len(fired) : ~fired[i].threw)
  => /\ Len(_history) = Cardinality(FiredAll("patch:start"))
     /\ Len(_history) = Cardinality(Sent)
     /\ \A c \in Sent :
          _history[Cardinality({d \in Sent : d <= c})] = calls[c].patch
     /\ Cardinality(FiredAll("patch:end")) <= Len(_history)

\* C28: the step in which transport.get() rejects inside a fetch() and the
\* step in which the fetch() resumes on that rejection leave the canonical
\* state, the history and the subscriber lists as they were; the call
\* rejects and no get:end was fired for it.
C28_FetchRejectionLeavesState ==
  [][\A c \in 1..Len(calls) :
       ( /\ calls[c].kind = "fetch"
         /\ calls'[c].tstate = "rejected"
         /\ calls'[c].pc # calls[c].pc )
       => /\ calls[c].pc = "settled" => calls'[c].pc = "rejected"
          /\ _object' = _object
          /\ heap'[_object'] = heap[_object]
          /\ _history' = _history
          /\ _listeners' = _listeners
          /\ {i \in 1..Len(fired') : fired'[i].ev = "get:end" /\ fired'[i].call = c} = {}]_vars

\* a fetch() has rejected on its transport's rejection after a change() was
\* merged and a callback subscribed: the merged state, the history entry and
\* the subscription are there, and the fetch() has fired get:start only
C28_Witness ==
  \E c, d \in 1..Len(calls) :
    /\ calls[c].kind = "fetch" /\ calls[c].pc = "rejected"
    /\ calls[c].tstate = "rejected" /\ calls[c].thrown = calls[c].error
    /\ calls[d].kind = "change" /\ calls[d].arg = Map([a |-> Str("not a")])
    /\ Prop(Canonical, "a") = Str("not a")
    /\ _history = <<calls[d].patch>>
    /\ \E e \in EventNames : _listeners[e] # <<>>
    /\ Fired("get:start", c) # {}
    /\ Fired("get:end", c) = {}

====
